---- MODULE Spec2Model ----
(***************************************************************************)
(* Model of the backend (app/backend/app): the user table, the refresh-    *)
(* token table, the handlers /auth/signup, /auth/token (login),            *)
(* /auth/refresh (rotation) and /auth/logout, the bearer-token dependency  *)
(* get_current_user, the users the saved-recipes endpoints create, and the *)
(* recipe generator of services.py.                                        *)
(*                                                                         *)
(* Spec      requests run one after another; every handler is one action.  *)
(* SpecLogin the same, with every signup form and login the input sets     *)
(*           allow (colliding usernames and emails, non-address emails).   *)
(* SpecConc  /auth/refresh runs as a process per request, one step per     *)
(*           store statement (read or commit), so that two requests        *)
(*           interleave and a request can end between its two commits.     *)
(* SpecSignup /auth/signup and /user/saved-recipes run as processes, one   *)
(*           step per statement on the user table.                         *)
(* SpecRecipe POST /recipes/generate answers one request, any list of      *)
(*           ingredients within the bounds.                                *)
(* SpecSaved the four /user/saved-recipes handlers, one request after      *)
(*           another, each handler one action.                             *)
(* SpecHttp  http_exception_handler answers one HTTPException, any status  *)
(*           and detail of the input sets.                                 *)
(* SpecCookie auth_cookie_middleware receives one request, any headers,    *)
(*           cookies, method and path of the input sets.                   *)
(*                                                                         *)
(* A handler is an operator from the store, the clock and the request to   *)
(* the response and the store it leaves; the actions apply the handlers,   *)
(* and the properties of responses are stated on the handlers' results in  *)
(* every reachable state.                                                  *)
(***************************************************************************)
EXTENDS Integers, Sequences, FiniteSets, TLC

\* ---------------------------------------------------------------- bounds
MaxUsers == 2
MaxTokens == 2
\* SpecConc: rows in refresh_tokens, counting one for each request in flight
MaxConcTokens == 3
MaxTime == 2
\* SpecSignup: rows in saved_recipes
MaxSaved == 1
\* SpecSaved: POST /user/saved-recipes requests answered 201
MaxRecipes == 2
\* SpecRecipe: characters of an ingredient, ingredients of a request
MaxLen == 2
MaxList == 2

\* ------------------------------------------------ configuration (auth.py)
\* Token lifetimes, in clock ticks of the model (both are read from the
\* environment; the model runs with short lifetimes so that expiry happens).
ACCESS_TOKEN_EXPIRE_MINUTES == 1
REFRESH_TOKEN_EXPIRE_DAYS == 1

\* The environments the server may be started in: SECRET_KEY unset, or set.
Environs == {[name \in {} |-> ""], [SECRET_KEY |-> "s3cret"]}

\* ----------------------------------------------------------- input sets
\* Strings a client may send as username, as email and as login identifier.
\* UserCreate types both fields as str, so signup accepts any string in
\* either: "bob@x.com" is a username and an email, "alice" is a username and
\* (not being an address) an email that EmailStr rejects.
Usernames == {"alice", "bob@x.com"}
Emails == {"alice@x.com", "bob@x.com", "alice"}
Idents == Usernames \cup Emails \cup {"nobody"}
Passwords == {"pw1", "pw2"}
\* Refresh-token strings: 0 stands for a missing/empty refresh_token field,
\* MaxConcTokens + 1 for a well-formed string the server never issues.
NoToken == 0
TokenInputs == 0 .. (MaxConcTokens + 1)
Procs == {1, 2}
\* Keys a bearer token may be signed with: the two the server may hold and
\* one it never holds.
Keys == {"s3cret", "change-me-local", "forged"}

VARIABLES
    users,      \* table users: sequence of rows, the row's id is its index
    tokens,     \* table refresh_tokens: sequence of rows, in insertion order
    now,        \* datetime.now(timezone.utc)
    rotated,    \* history: token strings a refresh request answered 200 for
    revokedByRefresh, \* history: token strings a refresh request revoked
    loggedOut,  \* history: stored token strings a logout request has revoked
    pc,         \* SpecConc: position of each in-flight refresh request
    loc,        \* SpecConc: the locals of each in-flight refresh request
    presp,      \* SpecConc: the response each refresh process returned last
    saved,      \* table saved_recipes: sequence of rows, in insertion order
    raw_ingredients, \* SpecRecipe: RecipeRequest.ingredients
    generated,  \* SpecRecipe: the response of POST /recipes/generate
    environ,    \* os.environ as auth.py reads it at import
    issued,     \* the access tokens handed out, each with the request that
                \* obtained it and the refresh token returned along with it
    exc,        \* SpecHttp: the HTTPException a route raised
    handled,    \* SpecHttp: the response of http_exception_handler
    request,    \* SpecCookie: the request auth_cookie_middleware receives
    forwarded,  \* SpecCookie: what the middleware did with the request
    recipeLog   \* history: every saved recipe a POST answered 201 for, with
                \* the username it was saved under and whether a DELETE
                \* answered 204 for it since

vars == <<users, tokens, now, rotated, revokedByRefresh, loggedOut,
          pc, loc, presp, saved, raw_ingredients, generated, environ,
          issued, exc, handled, request, forwarded, recipeLog>>
history == <<rotated, revokedByRefresh, loggedOut>>
procVars == <<pc, loc, presp>>
boundary == <<exc, handled, request, forwarded>>
others == <<saved, raw_ingredients, generated, environ, boundary, recipeLog>>

\* ---------------------------------------------------------- configuration
\* os.getenv(name, default)
getenv(name, default) ==
    IF name \in DOMAIN environ THEN environ[name] ELSE default

SECRET_KEY == getenv("SECRET_KEY", "change-me-local")

\* ------------------------------------------------------------ responses
NoAccess == [sub |-> "", exp |-> 0, key |-> ""]

Response(op, ident, password, token, status, code, message, access, refresh) ==
    [op |-> op, ident |-> ident, password |-> password, token |-> token,
     status |-> status, code |-> code, message |-> message,
     access |-> access, refresh |-> refresh]

NoResponse == Response("none", "", "", NoToken, 0, "", "", NoAccess, NoToken)

InternalError(op, ident, password, token) ==
    Response(op, ident, password, token, 500, "internal_error",
             "Internal server error", NoAccess, NoToken)

\* HTTPException(status_code, detail). A detail is None, a dict, a str that
\* is the JSON text of a dict, any other str, or a value of another type.
\* Of a dict (or the dict a str parses to) the model keeps the keys the
\* handler reads: message, code, and alt for the value of "detail" or
\* "error"; a key that is absent, None or "" reads "", and has_code tells
\* an absent code from a None or "" one. Of a plain str or another value,
\* message is its text.
Detail(kind, message, alt, has_code, code) ==
    [kind |-> kind, message |-> message, alt |-> alt, has_code |-> has_code,
     code |-> code]

HTTPException(status_code, detail) ==
    [status_code |-> status_code, detail |-> detail]

\* main.py, _coerce_detail_to_object: the dict {message, code?} of a detail
_coerce_detail_to_object(detail) ==
    IF detail.kind \in {"dict", "json"}
    THEN [message |-> IF detail.message # "" THEN detail.message
                      ELSE detail.alt,
          has_code |-> detail.has_code,
          code |-> detail.code]
    ELSE [message |-> IF detail.kind = "none" THEN "" ELSE detail.message,
          has_code |-> FALSE,
          code |-> ""]

\* Mutation: every 401 is given the code invalid_credentials.
http_exception_handler_Override(status_code, message, code) ==
    [status |-> status_code,
     code |-> IF status_code = 401 THEN "invalid_credentials" ELSE code,
     message |-> IF status_code = 401
                     /\ message \in {"", "Not authenticated"}
                 THEN "Could not validate credentials" ELSE message]

\* main.py, http_exception_handler, on the message and the code of the
\* coerced detail: the body of an HTTPException; a 401 without a code gets
\* invalid_credentials, and the message of oauth2_scheme is replaced.
http_exception_handler(status_code, message, code) ==
    [status |-> status_code,
     code |-> IF status_code = 401 /\ code = ""
              THEN "invalid_credentials" ELSE code,
     message |-> IF status_code = 401
                     /\ message \in {"", "Not authenticated"}
                 THEN "Could not validate credentials" ELSE message]

\* -------------------------------------------------------- password helpers
\* A hash is opaque and one-way: only verify_password looks inside it.
get_password_hash(password) == [scheme |-> "argon2", plain |-> password]

\* pwdlib raises UnknownHashError for a string no hasher identifies.
HashKnown(hashed_password) == hashed_password.scheme = "argon2"

verify_password(plain_password, hashed_password) ==
    hashed_password.plain = plain_password

\* pydantic's EmailStr, the type of User.email: constructing User or
\* UserInDB with any other string raises ValidationError.
EmailStr(s) == s \in {"alice@x.com", "bob@x.com"}

\* ------------------------------------------------------------ user helpers
\* The rows the query of get_user matches; .first() has no ORDER BY, so it
\* may return any of them.
get_user(us, username_or_email) ==
    {i \in DOMAIN us : \/ us[i].username = username_or_email
                       \/ us[i].email = username_or_email}

\* db.query(DBUser).filter(DBUser.username == username).first()
UserByUsername(us, username) ==
    {i \in DOMAIN us : us[i].username = username}

UserByEmail(us, email) ==
    {i \in DOMAIN us : us[i].email = email}

\* Mutation: neither UserInDB nor verify raises.
authenticate_user_NoRaise(us, i, password) ==
    IF i = 0 THEN "none"
    ELSE IF ~verify_password(password, us[i].password_hash) THEN "none"
    ELSE "user"

\* authenticate_user for the row i that get_user's query returned (0: no
\* row): "raise" when building UserInDB or verifying raises, else whether
\* a user is returned.
authenticate_user(us, i, password) ==
    IF i = 0 THEN "none"
    ELSE IF ~EmailStr(us[i].email) THEN "raise"
    ELSE IF ~HashKnown(us[i].password_hash) THEN "raise"
    ELSE IF ~verify_password(password, us[i].password_hash) THEN "none"
    ELSE "user"

\* ------------------------------------------------------------- JWT helper
\* jwt.encode: the claims sub and exp, signed with SECRET_KEY.
create_access_token(sub, t) ==
    [sub |-> sub, exp |-> t + ACCESS_TOKEN_EXPIRE_MINUTES, key |-> SECRET_KEY]

\* The Authorization header of a request: absent, or "Bearer" and a string
\* that is a JWT (claims sub and exp, signing key) or is not one.
Authorization(scheme, form, has_sub, sub, exp, key) ==
    [scheme |-> scheme, form |-> form, has_sub |-> has_sub, sub |-> sub,
     exp |-> exp, key |-> key]

NoAuthorization == Authorization("", "", FALSE, "", 0, "")

\* The header a client sends with an access token it was handed.
Bearer(access) ==
    Authorization("Bearer", "jwt", TRUE, access.sub, access.exp, access.key)

BearerInputs ==
    {NoAuthorization, Authorization("Bearer", "garbage", FALSE, "", 0, "")}
    \cup {Authorization("Bearer", "jwt", TRUE, sub, exp, key) :
              sub \in Idents \cup {""}, exp \in 0 .. (MaxTime + 1),
              key \in Keys}
    \cup {Authorization("Bearer", "jwt", FALSE, "", exp, key) :
              exp \in 0 .. (MaxTime + 1), key \in Keys}

\* Mutation: the expiry is not verified.
jwt_decode_NoExpiry(token, t) ==
    token.form = "jwt" /\ token.key = SECRET_KEY

\* Mutation: the signature is not verified.
jwt_decode_NoSignature(token, t) ==
    token.form = "jwt" /\ t < token.exp

\* jwt.decode(token, SECRET_KEY, algorithms=[ALGORITHM]): whether it returns
\* the payload; otherwise it raises InvalidTokenError (not a JWT, signed
\* with another key, or exp <= now).
jwt_decode(token, t) ==
    /\ token.form = "jwt"
    /\ token.key = SECRET_KEY
    /\ t < token.exp

\* ---------------------------------------------------- refresh-token helpers
\* uuid.uuid4().hex: a string no stored row holds.
uuid4(toks) == Len(toks) + 1

\* Mutation: the lifetime is left out of expires_at.
_create_refresh_token_record_NoTtl(toks, user_id, t) ==
    Append(toks, [token |-> uuid4(toks),
                  user_id |-> user_id,
                  expires_at |-> t,
                  revoked |-> FALSE])

_create_refresh_token_record(toks, user_id, t) ==
    Append(toks, [token |-> uuid4(toks),
                  user_id |-> user_id,
                  expires_at |-> t + REFRESH_TOKEN_EXPIRE_DAYS,
                  revoked |-> FALSE])

\* db.query(DBRefreshToken).filter(DBRefreshToken.token == token_str).first()
TokenRows(toks, token_str) ==
    {i \in DOMAIN toks : toks[i].token = token_str}

\* Mutations of the revoke commit: the commit is forgotten; the flag is
\* flipped instead of set.
CommitRevoked_Forgotten(toks, i) == toks

CommitRevoked_Toggle(toks, i) ==
    [toks EXCEPT ![i].revoked = ~toks[i].revoked]

\* rt.revoked = True; db.add(rt); db.commit()  -- UPDATE ... WHERE id = i
CommitRevoked(toks, i) ==
    [toks EXCEPT ![i].revoked = TRUE]

\* Mutation: logout finds the row and does not revoke it.
_revoke_refresh_token_Noop(toks, token_str) == toks

_revoke_refresh_token(toks, token_str) ==
    IF TokenRows(toks, token_str) = {}
    THEN toks
    ELSE CommitRevoked(toks, CHOOSE i \in TokenRows(toks, token_str) : TRUE)

\* Mutation: expires_at is not looked at.
_validate_refresh_token_NoExpiry(toks, token_str, t) ==
    IF TokenRows(toks, token_str) = {}
    THEN 0
    ELSE LET i == CHOOSE j \in TokenRows(toks, token_str) : TRUE
         IN IF toks[i].revoked THEN 0 ELSE i

\* The row index of the valid record, or 0 for None.
_validate_refresh_token(toks, token_str, t) ==
    IF TokenRows(toks, token_str) = {}
    THEN 0
    ELSE LET i == CHOOSE j \in TokenRows(toks, token_str) : TRUE
         IN IF toks[i].revoked THEN 0
            ELSE IF toks[i].expires_at < t THEN 0
            ELSE i

\* ------------------------------------------------------------ dependencies
NoUser == [username |-> "", email |-> "", disabled |-> FALSE]

Dependency(answer, user) ==
    [status |-> answer.status, code |-> answer.code,
     message |-> answer.message, user |-> user]

\* The rows the query of get_user may return to get_current_user (0: None,
\* also when the query is not reached).
CurrentUserRows(us, authorization, t) ==
    IF /\ authorization.scheme = "Bearer"
       /\ jwt_decode(authorization, t)
       /\ get_user(us, authorization.sub) # {}
    THEN get_user(us, authorization.sub)
    ELSE {0}

\* Depends(oauth2_scheme) and get_current_user, for the row i that get_user's
\* query returned: status 200 and the User, or the error the client gets.
get_current_user(us, authorization, t, i) ==
    IF authorization.scheme # "Bearer"
    THEN Dependency(http_exception_handler(401, "Not authenticated", ""),
                    NoUser)
    ELSE IF \/ ~jwt_decode(authorization, t)
            \/ ~authorization.has_sub
            \/ authorization.sub = ""
            \/ i = 0
    THEN Dependency(http_exception_handler(
                        401, "Could not validate credentials",
                        "invalid_credentials"), NoUser)
    ELSE IF ~EmailStr(us[i].email)
    THEN Dependency([status |-> 500, code |-> "internal_error",
                     message |-> "Internal server error"], NoUser)
    ELSE Dependency([status |-> 200, code |-> "", message |-> ""],
                    [username |-> us[i].username, email |-> us[i].email,
                     disabled |-> ~us[i].is_active])

\* get_current_active_user, as /auth/users/me/ answers.
get_current_active_user(us, authorization, t, i) ==
    LET current_user == get_current_user(us, authorization, t, i)
    IN  IF current_user.status = 200 /\ current_user.user.disabled
        THEN Dependency(http_exception_handler(400, "Inactive user",
                                               "account_inactive"), NoUser)
        ELSE current_user

\* ------------------------------------------------------------------ routes
\* Each handler is a function of the store, the clock and the request; it
\* returns the response and the store it leaves.

\* Mutation: the subject is the identifier the form carried, not the
\* username of the authenticated user.
login_for_access_token_SubIsIdent(us, toks, t, ident, password, i) ==
    IF authenticate_user(us, i, password) # "user"
           \/ \E u \in UserByUsername(us, us[i].username) : ~us[u].is_active
    THEN [resp |-> Response("login", ident, password, NoToken, 401,
                            "invalid_credentials",
                            "Incorrect username or password",
                            NoAccess, NoToken),
          tokens |-> toks]
    ELSE [resp |-> Response("login", ident, password, NoToken, 200, "", "",
                            create_access_token(ident, t), uuid4(toks)),
          tokens |-> _create_refresh_token_record(toks, i, t)]

\* Mutation: the refresh-token record is stored before is_active is looked
\* at.
login_for_access_token_RecordFirst(us, toks, t, ident, password, i) ==
    LET auth == authenticate_user(us, i, password)
        db_user == UserByUsername(us, us[i].username)
    IN  IF auth = "raise"
        THEN [resp |-> InternalError("login", ident, password, NoToken),
              tokens |-> toks]
        ELSE IF auth = "none"
        THEN [resp |-> Response("login", ident, password, NoToken, 401,
                                "invalid_credentials",
                                "Incorrect username or password",
                                NoAccess, NoToken),
              tokens |-> toks]
        ELSE IF db_user = {} \/ \E u \in db_user : ~us[u].is_active
        THEN [resp |-> Response("login", ident, password, NoToken, 403,
                                "account_disabled", "Account is disabled",
                                NoAccess, NoToken),
              tokens |-> _create_refresh_token_record(toks, i, t)]
        ELSE LET u == CHOOSE v \in db_user : TRUE
             IN [resp |-> Response("login", ident, password, NoToken, 200,
                                   "", "",
                                   create_access_token(us[i].username, t),
                                   uuid4(toks)),
                 tokens |-> _create_refresh_token_record(toks, u, t)]

\* POST /auth/token, for the row i that get_user's query returned (0: none).
login_for_access_token(us, toks, t, ident, password, i) ==
    LET auth == authenticate_user(us, i, password)
        db_user == UserByUsername(us, us[i].username)
    IN  IF auth = "raise"
        THEN [resp |-> InternalError("login", ident, password, NoToken),
              tokens |-> toks]
        ELSE IF auth = "none"
        THEN [resp |-> Response("login", ident, password, NoToken, 401,
                                "invalid_credentials",
                                "Incorrect username or password",
                                NoAccess, NoToken),
              tokens |-> toks]
        ELSE IF db_user = {} \/ \E u \in db_user : ~us[u].is_active
        THEN [resp |-> Response("login", ident, password, NoToken, 403,
                                "account_disabled", "Account is disabled",
                                NoAccess, NoToken),
              tokens |-> toks]
        ELSE LET u == CHOOSE v \in db_user : TRUE
             IN [resp |-> Response("login", ident, password, NoToken, 200,
                                   "", "",
                                   create_access_token(us[i].username, t),
                                   uuid4(toks)),
                 tokens |-> _create_refresh_token_record(toks, u, t)]

\* Mutation: the presented token is revoked before the user is looked at.
refresh_access_token_RevokeFirst(us, toks, t, token_str) ==
    LET rt_record == _validate_refresh_token(toks, token_str, t)
    IN  IF token_str = NoToken
        THEN [resp |-> Response("refresh", "", "", token_str, 400,
                                "missing_refresh_token",
                                "Missing refresh_token", NoAccess, NoToken),
              tokens |-> toks]
        ELSE IF rt_record = 0
        THEN [resp |-> Response("refresh", "", "", token_str, 401,
                                "invalid_refresh_token",
                                "Invalid or expired refresh token",
                                NoAccess, NoToken),
              tokens |-> toks]
        ELSE LET db_user == toks[rt_record].user_id
                 revoked == CommitRevoked(toks, rt_record)
             IN IF db_user \notin DOMAIN us \/ ~us[db_user].is_active
                THEN [resp |-> Response("refresh", "", "", token_str, 403,
                                        "account_disabled",
                                        "Account disabled",
                                        NoAccess, NoToken),
                      tokens |-> revoked]
                ELSE [resp |-> Response("refresh", "", "", token_str,
                                    200, "", "",
                                    create_access_token(
                                        us[db_user].username, t),
                                    uuid4(revoked)),
                      tokens |-> _create_refresh_token_record(
                                     revoked, db_user, t)]

\* POST /auth/refresh
refresh_access_token(us, toks, t, token_str) ==
    LET rt_record == _validate_refresh_token(toks, token_str, t)
    IN  IF token_str = NoToken
        THEN [resp |-> Response("refresh", "", "", token_str, 400,
                                "missing_refresh_token",
                                "Missing refresh_token", NoAccess, NoToken),
              tokens |-> toks]
        ELSE IF rt_record = 0
        THEN [resp |-> Response("refresh", "", "", token_str, 401,
                                "invalid_refresh_token",
                                "Invalid or expired refresh token",
                                NoAccess, NoToken),
              tokens |-> toks]
        ELSE LET db_user == toks[rt_record].user_id
             IN IF db_user \notin DOMAIN us \/ ~us[db_user].is_active
                THEN [resp |-> Response("refresh", "", "", token_str, 403,
                                        "account_disabled",
                                        "Account disabled",
                                        NoAccess, NoToken),
                      tokens |-> toks]
                ELSE LET revoked == CommitRevoked(toks, rt_record)
                     IN [resp |-> Response("refresh", "", "", token_str,
                                    200, "", "",
                                    create_access_token(
                                        us[db_user].username, t),
                                    uuid4(revoked)),
                         tokens |-> _create_refresh_token_record(
                                        revoked, db_user, t)]

\* POST /auth/logout
logout(toks, token_str) ==
    [resp |-> Response("logout", "", "", token_str, 204, "", "",
                       NoAccess, NoToken),
     tokens |-> IF token_str # NoToken
                THEN _revoke_refresh_token(toks, token_str)
                ELSE toks]

\* Mutation: the email is looked up before the username.
signup_EmailFirst(us, username, email, password) ==
    IF UserByEmail(us, email) # {}
    THEN [resp |-> Response("signup", username, password, NoToken, 400,
                            "email_exists", "Email already registered",
                            NoAccess, NoToken),
          users |-> us]
    ELSE IF UserByUsername(us, username) # {}
    THEN [resp |-> Response("signup", username, password, NoToken, 400,
                            "username_exists", "Username already exists",
                            NoAccess, NoToken),
          users |-> us]
    ELSE [resp |-> Response("signup", username, password, NoToken, 201,
                            "", "", NoAccess, NoToken),
          users |-> Append(us, [username |-> username,
                                email |-> email,
                                password_hash |-> get_password_hash(password),
                                is_active |-> TRUE])]

\* POST /auth/signup
signup(us, username, email, password) ==
    IF UserByUsername(us, username) # {}
    THEN [resp |-> Response("signup", username, password, NoToken, 400,
                            "username_exists", "Username already exists",
                            NoAccess, NoToken),
          users |-> us]
    ELSE IF UserByEmail(us, email) # {}
    THEN [resp |-> Response("signup", username, password, NoToken, 400,
                            "email_exists", "Email already registered",
                            NoAccess, NoToken),
          users |-> us]
    ELSE [resp |-> IF EmailStr(email)
                   THEN Response("signup", username, password, NoToken,
                                 201, "", "", NoAccess, NoToken)
                   ELSE InternalError("signup", username, password, NoToken),
          users |-> Append(us, [username |-> username,
                                email |-> email,
                                password_hash |-> get_password_hash(password),
                                is_active |-> TRUE])]

\* ------------------------------------------ main.py, auth_cookie_middleware
\* A header of the ASGI scope (names arrive in lower case), and a request:
\* cookies is request.cookies, a dict from the names sent to their values.
Header(name, value) == [name |-> name, value |-> value]

Request(method, path, headers, cookies) ==
    [method |-> method, path |-> path, headers |-> headers,
     cookies |-> cookies]

NoRequest == Request("", "", <<>>, [name \in {} |-> ""])

\* str.startswith(prefix) and the test "sub in text"
startswith(text, prefix) ==
    /\ Len(text) >= Len(prefix)
    /\ SubSeq(text, 1, Len(prefix)) = prefix

contains(text, sub) ==
    \E k \in 1 .. (Len(text) - Len(sub) + 1) :
        SubSeq(text, k, k + Len(sub) - 1) = sub

\* any(h[0].lower() == b"authorization" for h in headers)
has_authorization(headers) ==
    \E k \in DOMAIN headers : headers[k].name = "authorization"

\* request.headers.get(name, ""): the value of the first header so named
headers_get(headers, name) ==
    IF \E k \in DOMAIN headers : headers[k].name = name
    THEN headers[CHOOSE k \in DOMAIN headers :
                    /\ headers[k].name = name
                    /\ \A j \in 1 .. (k - 1) : headers[j].name # name].value
    ELSE ""

\* The loop over the cookie names, with token_from_cookie as it stands
\* ("" for None): a cookie that is sent sets it, a non-empty one ends the
\* loop.
RECURSIVE token_from_cookie(_, _, _)
token_from_cookie(cookies, cookie_names, token) ==
    IF cookie_names = <<>> THEN token
    ELSE IF Head(cookie_names) \in DOMAIN cookies
    THEN IF cookies[Head(cookie_names)] # ""
         THEN cookies[Head(cookie_names)]
         ELSE token_from_cookie(cookies, Tail(cookie_names), "")
    ELSE token_from_cookie(cookies, Tail(cookie_names), token)

protected_paths == {"/profile"}

NotForwarded == [action |-> "", location |-> "", headers |-> <<>>]

\* Mutation: the cookie is injected in front of an Authorization header too.
auth_cookie_middleware_CookieFirst(req) ==
    LET token == token_from_cookie(req.cookies,
                     <<"access_token", "recipe_access_token">>, "")
        headers == IF token # ""
                   THEN <<Header("authorization", "Bearer " \o token)>>
                        \o req.headers
                   ELSE req.headers
    IN  IF /\ contains(headers_get(req.headers, "accept"), "text/html")
           /\ req.method = "GET"
           /\ \E p \in protected_paths : startswith(req.path, p)
           /\ ~has_authorization(headers)
        THEN [action |-> "redirect", location |-> "/login",
              headers |-> <<>>]
        ELSE [action |-> "call_next", location |-> "", headers |-> headers]

\* auth_cookie_middleware: RedirectResponse("/login"), or call_next with the
\* headers of the scope as the middleware leaves them.
auth_cookie_middleware(req) ==
    LET has_auth == has_authorization(req.headers)
        token == IF has_auth THEN ""
                 ELSE token_from_cookie(req.cookies,
                          <<"access_token", "recipe_access_token">>, "")
        headers == IF token # "" /\ ~has_auth
                   THEN <<Header("authorization", "Bearer " \o token)>>
                        \o req.headers
                   ELSE req.headers
        has_auth_after == has_authorization(headers)
        accept == headers_get(req.headers, "accept")
        is_html_nav == contains(accept, "text/html") /\ req.method = "GET"
    IN  IF /\ is_html_nav
           /\ \E p \in protected_paths : startswith(req.path, p)
           /\ ~has_auth_after
        THEN [action |-> "redirect", location |-> "/login",
              headers |-> <<>>]
        ELSE [action |-> "call_next", location |-> "", headers |-> headers]

\* ----------------------------------------------------------------- state
NotHandled == [status |-> 0, code |-> "", message |-> ""]

NotGenerated == [status |-> 0, code |-> "", message |-> "", title |-> <<>>,
                 ingredients |-> <<>>, steps |-> <<>>]

\* No request made yet: the tables as create_db leaves them.
InitStore ==
    /\ users = <<>>
    /\ tokens = <<>>
    /\ now = 0
    /\ rotated = {}
    /\ revokedByRefresh = {}
    /\ loggedOut = {}
    /\ pc = [p \in Procs |-> "idle"]
    /\ loc = [p \in Procs |-> [token_str |-> NoToken, rt_record |-> 0,
                               db_user |-> 0]]
    /\ presp = [p \in Procs |-> NoResponse]
    /\ saved = <<>>
    /\ environ \in Environs
    /\ issued = {}
    /\ generated = NotGenerated
    /\ handled = NotHandled
    /\ forwarded = NotForwarded
    /\ recipeLog = {}

\* No exception raised and no request at the middleware.
NoBoundary ==
    /\ exc = HTTPException(0, Detail("none", "", "", FALSE, ""))
    /\ request = NoRequest

Init ==
    /\ InitStore
    /\ raw_ingredients = <<>>
    /\ NoBoundary

\* ------------------------------------------- requests, one after another
\* What the client of a request holds after the response: nothing new, or
\* the access token of a 200 with the refresh token that came with it.
Handed(resp) ==
    IF resp.status = 200
    THEN {[op |-> resp.op, ident |-> resp.ident, access |-> resp.access,
           refresh |-> resp.refresh]}
    ELSE {}

\* Every action takes the sets its request fields are drawn from.
UserCreate(usernames, emails, passwords) ==
    [username : usernames, email : emails, password : passwords]

Alice == [username |-> "alice", email |-> "alice@x.com", password |-> "pw1"]
Bob == [username |-> "bob@x.com", email |-> "bob@x.com", password |-> "pw1"]

Signup(forms) ==
    \E user_in \in forms :
        LET out == signup(users, user_in.username, user_in.email,
                          user_in.password)
        IN  /\ Len(out.users) <= MaxUsers
            /\ users' = out.users
            /\ UNCHANGED <<tokens, now, history, procVars, others, issued>>

Login(idents, passwords) ==
    \E ident \in idents, password \in passwords :
        \E i \in (IF get_user(users, ident) = {} THEN {0}
                  ELSE get_user(users, ident)) :
            LET out == login_for_access_token(users, tokens, now, ident,
                                              password, i)
            IN  /\ Len(out.tokens) <= MaxTokens
                /\ tokens' = out.tokens
                /\ issued' = issued \cup Handed(out.resp)
                /\ UNCHANGED <<users, now, history, procVars, others>>

Refresh ==
    \E token_str \in TokenInputs :
        LET out == refresh_access_token(users, tokens, now, token_str)
        IN  /\ Len(out.tokens) <= MaxTokens
            /\ tokens' = out.tokens
            /\ rotated' = IF out.resp.status = 200
                          THEN rotated \cup {token_str} ELSE rotated
            /\ revokedByRefresh' = rotated'
            /\ issued' = issued \cup Handed(out.resp)
            /\ UNCHANGED <<users, now, loggedOut, procVars, others>>

Logout ==
    \E token_str \in TokenInputs :
        LET out == logout(tokens, token_str)
        IN  /\ tokens' = out.tokens
            /\ loggedOut' = IF TokenRows(tokens, token_str) # {}
                            THEN loggedOut \cup {token_str} ELSE loggedOut
            /\ UNCHANGED <<users, now, rotated, revokedByRefresh, procVars,
                           others, issued>>

\* The store's is_active column changes only from outside the handlers (an
\* operator disabling or re-enabling an account).
SetActive ==
    \E u \in DOMAIN users, b \in BOOLEAN :
        /\ users' = [users EXCEPT ![u].is_active = b]
        /\ UNCHANGED <<tokens, now, history, procVars, others, issued>>

Tick ==
    /\ now < MaxTime
    /\ now' = now + 1
    /\ UNCHANGED <<users, tokens, history, procVars, others, issued>>

\* Token lifecycle: two accounts with their own addresses and one password.
Next ==
    \/ Signup({Alice, Bob})
    \/ Login(Usernames, {"pw1"})
    \/ Refresh
    \/ Logout
    \/ SetActive
    \/ Tick

Spec == Init /\ [][Next]_vars

\* ------------------------------------- /auth/refresh, statement by statement
\* Each request has its own Session; a step is one store statement of
\* refresh_access_token together with the Python code up to the next one.
InFlight == {p \in Procs : pc[p] # "idle"}

Idle(p, response) ==
    /\ pc' = [pc EXCEPT ![p] = "idle"]
    /\ loc' = [loc EXCEPT ![p] = [token_str |-> NoToken, rt_record |-> 0,
                                  db_user |-> 0]]
    /\ presp' = [presp EXCEPT ![p] = response]

\* lines 278-296: the SELECT of _validate_refresh_token
RefreshValidate(p) ==
    /\ pc[p] = "idle"
    /\ Len(tokens) + Cardinality(InFlight) < MaxConcTokens
    /\ \E token_str \in TokenInputs :
        LET rt_record == _validate_refresh_token(tokens, token_str, now)
        IN  IF token_str = NoToken \/ rt_record = 0
            THEN Idle(p, refresh_access_token(users, tokens, now,
                                              token_str).resp)
            ELSE /\ pc' = [pc EXCEPT ![p] = "validated"]
                 /\ loc' = [loc EXCEPT ![p] = [token_str |-> token_str,
                                               rt_record |-> rt_record,
                                               db_user |-> 0]]
                 /\ UNCHANGED presp
    /\ UNCHANGED <<users, tokens, now, history, others, issued>>

\* lines 298-304: the SELECT of the owning user
RefreshLoadUser(p) ==
    /\ pc[p] = "validated"
    /\ LET db_user == tokens[loc[p].rt_record].user_id
       IN  IF db_user \notin DOMAIN users \/ ~users[db_user].is_active
           THEN Idle(p, Response("refresh", "", "", loc[p].token_str, 403,
                                 "account_disabled", "Account disabled",
                                 NoAccess, NoToken))
           ELSE /\ pc' = [pc EXCEPT ![p] = "user_ok"]
                /\ loc' = [loc EXCEPT ![p].db_user = db_user]
                /\ UNCHANGED presp
    /\ UNCHANGED <<users, tokens, now, history, others, issued>>

\* lines 306-309: UPDATE refresh_tokens SET revoked = true WHERE id = ...
RefreshRevoke(p) ==
    /\ pc[p] = "user_ok"
    /\ tokens' = CommitRevoked(tokens, loc[p].rt_record)
    /\ revokedByRefresh' = revokedByRefresh \cup {loc[p].token_str}
    /\ pc' = [pc EXCEPT ![p] = "revoked"]
    /\ UNCHANGED <<users, now, rotated, loggedOut, loc, presp, others,
                   issued>>

\* lines 311-324: the INSERT of _create_refresh_token_record and the response
RefreshIssue(p) ==
    /\ pc[p] = "revoked"
    /\ tokens' = _create_refresh_token_record(tokens, loc[p].db_user, now)
    /\ rotated' = rotated \cup {loc[p].token_str}
    /\ LET response == Response("refresh", "", "", loc[p].token_str, 200,
                                "", "",
                                create_access_token(
                                    users[loc[p].db_user].username, now),
                                uuid4(tokens))
       IN  /\ Idle(p, response)
           /\ issued' = issued \cup Handed(response)
    /\ UNCHANGED <<users, now, revokedByRefresh, loggedOut, others>>

\* A store statement of the request raises (the store is unreachable): the
\* exception leaves the handler, get_db closes the Session, and the
\* catch-all handler answers 500.
RefreshStoreError(p) ==
    /\ pc[p] \in {"validated", "user_ok", "revoked"}
    /\ Idle(p, InternalError("refresh", "", "", loc[p].token_str))
    /\ UNCHANGED <<users, tokens, now, history, others, issued>>

\* One account; the clock stands still while the requests interleave.
NextConc ==
    \/ Signup({Alice})
    \/ Login({"alice"}, {"pw1"})
    \/ Logout
    \/ SetActive
    \/ \E p \in Procs : RefreshValidate(p)
    \/ \E p \in Procs : RefreshLoadUser(p)
    \/ \E p \in Procs : RefreshRevoke(p)
    \/ \E p \in Procs : RefreshIssue(p)
    \/ \E p \in Procs : RefreshStoreError(p)

SpecConc == Init /\ [][NextConc]_vars

\* Credentials: every signup form and every login the input sets allow.
NextLogin ==
    \/ Signup(UserCreate(Usernames, Emails, Passwords))
    \/ Login(Idents, Passwords)
    \/ SetActive

SpecLogin == Init /\ [][NextLogin]_vars

\* ------------------- /auth/signup and /user/saved-recipes, by statement
\* db.add(row); db.commit() on table users. The table carries
\* uq_users_username and uq_users_email: a commit that would store a second
\* row with the same username or the same email raises IntegrityError.
IntegrityError(us, row) ==
    \E u \in DOMAIN us : \/ us[u].username = row.username
                         \/ us[u].email = row.email

\* Mutation: the table has no unique constraints.
InsertUser_Unconstrained(us, row) == Append(us, row)

InsertUser(us, row) ==
    IF IntegrityError(us, row) THEN us ELSE Append(us, row)

\* The user the saved-recipes endpoints create for a username not stored.
DemoUser(username) ==
    [username |-> username,
     email |-> username \o "@example.local",
     password_hash |-> [scheme |-> "", plain |-> ""],
     is_active |-> TRUE]

\* ------------------------------------------- main.py, /user/saved-recipes
\* models.py, Recipe: id is None (0) unless the client sends one; the
\* ingredients and steps travel with the title and are left out.
Recipe(id, title) == [id |-> id, title |-> title]

\* uuid.uuid4() as the default of saved_recipes.id: a value no record has had
saved_uuid4(log) == Cardinality(log) + 1

\* What the log keeps of a POST answered 201
Logged(username, id, title) ==
    [username |-> username, id |-> id, title |-> title, deleted |-> FALSE]

\* Mutation: the id is not written into the stored recipe.
InsertSaved_ClientId(sv, saved_id, user_id, recipe) ==
    Append(sv, [id |-> saved_id, user_id |-> user_id,
                title |-> IF recipe.title # "" THEN recipe.title
                          ELSE "Saved recipe",
                recipe_data |-> recipe])

\* main.py 322-341: the INSERT of the record with recipe.model_dump(), and
\* the UPDATE that writes the record's id into recipe_data
InsertSaved(sv, saved_id, user_id, recipe) ==
    Append(sv, [id |-> saved_id, user_id |-> user_id,
                title |-> IF recipe.title # "" THEN recipe.title
                          ELSE "Saved recipe",
                recipe_data |-> [recipe EXCEPT !.id = saved_id]])

SavedResponse(status, code, message, id, recipes) ==
    [status |-> status, code |-> code, message |-> message, id |-> id,
     recipes |-> recipes]

\* raise HTTPException(status_code, detail = {message, code})
SavedError(status_code, message, code) ==
    LET body == http_exception_handler(status_code, message, code)
    IN  SavedResponse(body.status, body.code, body.message, 0, <<>>)

\* main.py 308-320 and 363-375: the user of that username, created when
\* there is none; raised when the INSERT breaks a unique constraint.
find_or_create_user(us, username) ==
    IF UserByUsername(us, username) # {}
    THEN [raised |-> FALSE, users |-> us,
          user_id |-> CHOOSE u \in UserByUsername(us, username) : TRUE]
    ELSE LET created == InsertUser(us, DemoUser(username))
         IN  [raised |-> created = us, users |-> created,
              user_id |-> Len(created)]

\* POST /user/saved-recipes; saved_id is the uuid4 the record is given
save_recipe_endpoint(us, sv, recipe, username, saved_id) ==
    LET found == find_or_create_user(us, username)
    IN  IF found.raised
        THEN [resp |-> SavedResponse(500, "internal_error",
                                     "Internal server error", 0, <<>>),
              users |-> us, saved |-> sv]
        ELSE [resp |-> SavedResponse(201, "", "", saved_id, <<>>),
              users |-> found.users,
              saved |-> InsertSaved(sv, saved_id, found.user_id, recipe)]

\* .order_by(created_at.desc()): the user's records, the newest first
RECURSIVE saved_items(_, _)
saved_items(sv, user_id) ==
    IF sv = <<>> THEN <<>>
    ELSE IF Head(sv).user_id = user_id
    THEN Append(saved_items(Tail(sv), user_id), Head(sv))
    ELSE saved_items(Tail(sv), user_id)

\* GET /user/saved-recipes: recipe_data of each record (the key id is in
\* every model_dump, so the record's id is never added on the way out)
get_saved_recipes_endpoint(us, sv, username) ==
    LET found == find_or_create_user(us, username)
        items == saved_items(sv, found.user_id)
    IN  IF found.raised
        THEN [resp |-> SavedResponse(500, "internal_error",
                                     "Internal server error", 0, <<>>),
              users |-> us]
        ELSE [resp |-> SavedResponse(200, "", "", 0,
                           [k \in DOMAIN items |-> items[k].recipe_data]),
              users |-> found.users]

\* main.py 416-421 and 472-477: the record of that id and that user
SavedOf(sv, saved_id, user_id) ==
    {k \in DOMAIN sv : sv[k].id = saved_id /\ sv[k].user_id = user_id}

\* What a request for one record leaves: the tables as they were, or the
\* table saved_recipes without the record.
SavedOutcome(resp, us, sv) == [resp |-> resp, users |-> us, saved |-> sv]

\* GET /user/saved-recipes/{saved_id} (Recipe.model_validate accepts every
\* recipe_data a POST stored)
get_saved_recipe_endpoint(us, sv, saved_id, username) ==
    IF UserByUsername(us, username) = {}
    THEN SavedOutcome(SavedError(404, "User not found", "not_found"), us, sv)
    ELSE LET user_id == CHOOSE u \in UserByUsername(us, username) : TRUE
         IN  IF SavedOf(sv, saved_id, user_id) = {}
             THEN SavedOutcome(SavedError(404, "Saved recipe not found",
                                          "not_found"), us, sv)
             ELSE LET k == CHOOSE k \in SavedOf(sv, saved_id, user_id) : TRUE
                  IN  SavedOutcome(SavedResponse(200, "", "", 0,
                                       <<sv[k].recipe_data>>), us, sv)

\* db.delete(saved); db.commit()
DeleteRow(sv, k) ==
    SubSeq(sv, 1, k - 1) \o SubSeq(sv, k + 1, Len(sv))

\* Mutation: the record is found by its id alone.
delete_saved_recipe_endpoint_AnyOwner(us, sv, saved_id, username) ==
    IF UserByUsername(us, username) = {}
    THEN SavedOutcome(SavedError(404, "User not found", "not_found"), us, sv)
    ELSE IF \A k \in DOMAIN sv : sv[k].id # saved_id
         THEN SavedOutcome(SavedError(404, "Saved recipe not found",
                                      "not_found"), us, sv)
         ELSE SavedOutcome(SavedResponse(204, "", "", 0, <<>>), us,
                           DeleteRow(sv, CHOOSE k \in DOMAIN sv :
                                             sv[k].id = saved_id))

\* DELETE /user/saved-recipes/{saved_id}
delete_saved_recipe_endpoint(us, sv, saved_id, username) ==
    IF UserByUsername(us, username) = {}
    THEN SavedOutcome(SavedError(404, "User not found", "not_found"), us, sv)
    ELSE LET user_id == CHOOSE u \in UserByUsername(us, username) : TRUE
         IN  IF SavedOf(sv, saved_id, user_id) = {}
             THEN SavedOutcome(SavedError(404, "Saved recipe not found",
                                          "not_found"), us, sv)
             ELSE SavedOutcome(SavedResponse(204, "", "", 0, <<>>), us,
                               DeleteRow(sv, CHOOSE k \in
                                   SavedOf(sv, saved_id, user_id) : TRUE))

\* The forms and usernames of SpecSignup: they collide on the username, on
\* the email, and with the record made for the username "demo" (its
\* username, its email, and its email taken as a username).
SignupForms ==
    {[username |-> "alice", email |-> "alice@x.com", password |-> "pw1"],
     [username |-> "alice", email |-> "demo@example.local",
      password |-> "pw1"],
     [username |-> "demo", email |-> "alice@x.com", password |-> "pw1"],
     [username |-> "demo@example.local", email |-> "bob@x.com",
      password |-> "pw1"]}

SavedUsernames == {"demo"}
Titles == {"Gyors recept: a"}

\* auth.py 346-351: SELECT ... WHERE username = user_in.username
SignupCheckUsername(p) ==
    /\ pc[p] = "idle"
    /\ \E user_in \in SignupForms :
        IF UserByUsername(users, user_in.username) # {}
        THEN Idle(p, signup(users, user_in.username, user_in.email,
                            user_in.password).resp)
        ELSE /\ Len(users) + Cardinality(InFlight) < MaxUsers
             /\ pc' = [pc EXCEPT ![p] = "username_free"]
             /\ loc' = [loc EXCEPT ![p] = user_in]
             /\ UNCHANGED presp
    /\ UNCHANGED <<users, tokens, now, history, others, issued>>

\* auth.py 353-358: SELECT ... WHERE email = user_in.email
SignupCheckEmail(p) ==
    /\ pc[p] = "username_free"
    /\ IF UserByEmail(users, loc[p].email) # {}
       THEN Idle(p, Response("signup", loc[p].username, loc[p].password,
                             NoToken, 400, "email_exists",
                             "Email already registered", NoAccess, NoToken))
       ELSE /\ pc' = [pc EXCEPT ![p] = "email_free"]
            /\ UNCHANGED <<loc, presp>>
    /\ UNCHANGED <<users, tokens, now, history, others, issued>>

\* auth.py 360-377: the INSERT, and the response model built from the row
SignupInsert(p) ==
    /\ pc[p] = "email_free"
    /\ LET row == [username |-> loc[p].username,
                   email |-> loc[p].email,
                   password_hash |-> get_password_hash(loc[p].password),
                   is_active |-> TRUE]
       IN  /\ users' = InsertUser(users, row)
           /\ IF users' # users /\ EmailStr(row.email)
              THEN Idle(p, Response("signup", row.username, loc[p].password,
                                    NoToken, 201, "", "", NoAccess, NoToken))
              ELSE Idle(p, InternalError("signup", row.username,
                                         loc[p].password, NoToken))
    /\ UNCHANGED <<tokens, now, history, others, issued>>

\* The rest of a saved-recipes request once its user row is at hand: POST
\* stores the recipe under that user, GET reads the user's recipes.
SavedRecipesRest(p, op, username, title, owners) ==
    /\ \/ /\ op = "save"
          /\ \E user_id \in owners :
                saved' = InsertSaved(saved, saved_uuid4(recipeLog), user_id,
                                     Recipe(0, title))
          /\ recipeLog' = recipeLog
                 \cup {Logged(username, saved_uuid4(recipeLog), title)}
          /\ Idle(p, Response("save", username, "", NoToken, 201, "", "",
                              NoAccess, NoToken))
       \/ /\ op = "list"
          /\ UNCHANGED <<saved, recipeLog>>
          /\ Idle(p, Response("list", username, "", NoToken, 200, "", "",
                              NoAccess, NoToken))
    /\ UNCHANGED <<tokens, now, history, raw_ingredients, generated,
                   environ, issued, boundary>>

\* The POST requests that have yet to store their recipe.
Saving == {q \in Procs : pc[q] = "user_missing" /\ loc[q].op = "save"}

\* main.py 308 and 363: SELECT ... WHERE username = username
SavedRecipesFindUser(p) ==
    /\ pc[p] = "idle"
    /\ \E op \in {"save", "list"}, username \in SavedUsernames,
          title \in Titles :
        /\ op = "save" => Len(saved) + Cardinality(Saving) < MaxSaved
        /\ IF UserByUsername(users, username) # {}
           THEN /\ SavedRecipesRest(p, op, username, title,
                                    UserByUsername(users, username))
                /\ users' = users
           ELSE /\ Len(users) + Cardinality(InFlight) < MaxUsers
                /\ pc' = [pc EXCEPT ![p] = "user_missing"]
                /\ loc' = [loc EXCEPT ![p] = [op |-> op,
                                              username |-> username,
                                              title |-> title]]
                /\ UNCHANGED <<users, tokens, now, history, others, issued,
                               presp>>

\* main.py 309-320 and 364-375: the INSERT of the minimal user, then the
\* rest of the request; IntegrityError leaves through the catch-all handler.
SavedRecipesCreateUser(p) ==
    /\ pc[p] = "user_missing"
    /\ users' = InsertUser(users, DemoUser(loc[p].username))
    /\ IF users' # users
       THEN SavedRecipesRest(p, loc[p].op, loc[p].username, loc[p].title,
                             {Len(users')})
       ELSE /\ Idle(p, InternalError(loc[p].op, loc[p].username, "",
                                     NoToken))
            /\ UNCHANGED <<tokens, now, history, others, issued>>

NextSignup ==
    \/ \E p \in Procs : SignupCheckUsername(p)
    \/ \E p \in Procs : SignupCheckEmail(p)
    \/ \E p \in Procs : SignupInsert(p)
    \/ \E p \in Procs : SavedRecipesFindUser(p)
    \/ \E p \in Procs : SavedRecipesCreateUser(p)

SpecSignup == Init /\ [][NextSignup]_vars

\* ------------------------ /user/saved-recipes, one request after another
\* The usernames, the recipes and the ids of the requests: two usernames,
\* a recipe as the generator returns it and one as a client sends it back
\* (carrying an id), every id a record may have and one none has.
SavedNames == {"demo", "alice"}
RecipesIn ==
    {Recipe(id, title) : id \in 0 .. MaxRecipes,
                         title \in {"Gyors recept: a", ""}}
SavedIds == 1 .. (MaxRecipes + 1)

SaveRecipe ==
    \E username \in SavedNames, recipe \in RecipesIn :
        LET saved_id == saved_uuid4(recipeLog)
            out == save_recipe_endpoint(users, saved, recipe, username,
                                        saved_id)
        IN  /\ saved_id <= MaxRecipes
            /\ Len(out.users) <= MaxUsers
            /\ users' = out.users
            /\ saved' = out.saved
            /\ recipeLog' = IF out.resp.status = 201
                            THEN recipeLog \cup {Logged(username, saved_id,
                                                        recipe.title)}
                            ELSE recipeLog
            /\ UNCHANGED <<tokens, now, history, procVars, raw_ingredients,
                           generated, environ, issued, boundary>>

ListSavedRecipes ==
    \E username \in SavedNames :
        LET out == get_saved_recipes_endpoint(users, saved, username)
        IN  /\ Len(out.users) <= MaxUsers
            /\ users' = out.users
            /\ UNCHANGED <<tokens, now, history, procVars, others, issued>>

GetSavedRecipe ==
    \E username \in SavedNames, saved_id \in SavedIds :
        LET out == get_saved_recipe_endpoint(users, saved, saved_id,
                                             username)
        IN  /\ users' = out.users
            /\ saved' = out.saved
            /\ UNCHANGED <<tokens, now, history, procVars, raw_ingredients,
                           generated, environ, issued, boundary, recipeLog>>

DeleteSavedRecipe ==
    \E username \in SavedNames, saved_id \in SavedIds :
        LET out == delete_saved_recipe_endpoint(users, saved, saved_id,
                                                username)
        IN  /\ users' = out.users
            /\ saved' = out.saved
            /\ recipeLog' = IF out.resp.status = 204
                            THEN {IF e.id = saved_id
                                  THEN [e EXCEPT !.deleted = TRUE] ELSE e :
                                  e \in recipeLog}
                            ELSE recipeLog
            /\ UNCHANGED <<tokens, now, history, procVars,
                           raw_ingredients, generated, environ, issued,
                           boundary>>

NextSaved ==
    \/ SaveRecipe
    \/ ListSavedRecipes
    \/ GetSavedRecipe
    \/ DeleteSavedRecipe

SpecSaved == Init /\ [][NextSaved]_vars

\* ------------------------------------------- services.py, /recipes/generate
\* A str is the sequence of its characters; the characters of the model are
\* a whitespace character, a lower-case letter and its upper-case form.
Chars == {" ", "a", "A"}
Items == UNION {[1 .. n -> Chars] : n \in 0 .. MaxLen}
RawIngredients == UNION {[1 .. n -> Items] : n \in 0 .. MaxList}

isspace(c) == c = " "

RECURSIVE lstrip(_)
lstrip(item) ==
    IF item # <<>> /\ isspace(Head(item)) THEN lstrip(Tail(item)) ELSE item

RECURSIVE rstrip(_)
rstrip(item) ==
    IF item # <<>> /\ isspace(item[Len(item)])
    THEN rstrip(SubSeq(item, 1, Len(item) - 1))
    ELSE item

\* Mutation: nothing is trimmed.
strip_Identity(item) == item

\* str.strip()
strip(item) == rstrip(lstrip(item))

\* Mutation: the case is kept.
lower_Identity(item) == item

\* str.lower()
lower(item) == [k \in DOMAIN item |-> IF item[k] = "A" THEN "a" ELSE item[k]]

\* [item.strip() for item in raw_ingredients if item and item.strip()]
RECURSIVE cleaned(_)
cleaned(raw) ==
    IF raw = <<>> THEN <<>>
    ELSE IF Head(raw) # <<>> /\ strip(Head(raw)) # <<>>
    THEN <<strip(Head(raw))>> \o cleaned(Tail(raw))
    ELSE cleaned(Tail(raw))

\* The loop of _normalize_ingredients over the items left, with the set
\* seen and the list unique as they stand.
RECURSIVE unique(_, _, _)
unique(items, seen, out) ==
    IF items = <<>> THEN out
    ELSE IF lower(Head(items)) \notin seen
    THEN unique(Tail(items), seen \cup {lower(Head(items))},
                Append(out, Head(items)))
    ELSE unique(Tail(items), seen, out)

\* The list returned, or <<>> where ValueError is raised.
_normalize_ingredients(raw) == unique(cleaned(raw), {}, <<>>)

\* ', '.join(ingredients)
RECURSIVE join(_)
join(ingredients) ==
    IF ingredients = <<>> THEN <<>>
    ELSE IF Len(ingredients) = 1 THEN Head(ingredients)
    ELSE Head(ingredients) \o <<",", " ">> \o join(Tail(ingredients))

\* The Recipe, or raised = TRUE with the message of the ValueError. (In the
\* texts of the steps the letter o with double acute is written o.)
generate_recipe_from_ingredients(raw) ==
    LET ingredients == _normalize_ingredients(raw)
    IN  IF ingredients = <<>>
        THEN [raised |-> TRUE,
              message |-> "At least one ingredient is required.",
              title |-> <<>>, ingredients |-> <<>>, steps |-> <<>>]
        ELSE [raised |-> FALSE,
              message |-> "",
              title |-> <<"Gyors recept: ">> \o join(ingredients),
              ingredients |-> [k \in DOMAIN ingredients |->
                                  [name |-> ingredients[k],
                                   amount |-> "ízlés szerint"]],
              steps |-> << <<"Készítsd elo az összetevoket.">>,
                           <<"Keverd össze a ">> \o join(ingredients)
                               \o <<" egy megfelelo serpenyoben vagy tálban.">>,
                           <<"Ízlés szerint sózd, borsozd, majd fozd készre.">>,
                           <<"Tálald azonnal, melegen.">> >>]

\* POST /recipes/generate
generate_recipe(ingredients) ==
    LET recipe == generate_recipe_from_ingredients(ingredients)
    IN  IF recipe.raised
        THEN [status |-> 400, code |-> "invalid_input",
              message |-> recipe.message,
              title |-> <<>>, ingredients |-> <<>>, steps |-> <<>>]
        ELSE [status |-> 200, code |-> "", message |-> "",
              title |-> recipe.title, ingredients |-> recipe.ingredients,
              steps |-> recipe.steps]

\* The request body is fixed at the start; the one step answers it.
InitRecipe ==
    /\ InitStore
    /\ raw_ingredients \in RawIngredients
    /\ NoBoundary

GenerateRecipe ==
    /\ generated = NotGenerated
    /\ generated' = generate_recipe(raw_ingredients)
    /\ UNCHANGED <<users, tokens, now, history, procVars, saved,
                   raw_ingredients, environ, issued, boundary, recipeLog>>

NextRecipe == GenerateRecipe

SpecRecipe == InitRecipe /\ [][NextRecipe]_vars

\* ------------------------------------------ main.py, http_exception_handler
\* The statuses and details a route may raise an HTTPException with.
StatusCodes == {400, 401, 403, 404}
Messages == {"", "Not authenticated", "Invalid refresh token"}
Codes == {"", "invalid_refresh_token", "invalid_credentials"}

Details ==
    {Detail("none", "", "", FALSE, "")}
    \cup {Detail(kind, message, alt, TRUE, code) :
            kind \in {"dict", "json"}, message \in Messages,
            alt \in {"", "Forbidden"}, code \in Codes}
    \cup {Detail(kind, message, alt, FALSE, "") :
            kind \in {"dict", "json"}, message \in Messages,
            alt \in {"", "Forbidden"}}
    \cup {Detail(kind, message, "", FALSE, "") :
            kind \in {"str", "other"}, message \in Messages}

InitHttp ==
    /\ InitStore
    /\ raw_ingredients = <<>>
    /\ request = NoRequest
    /\ exc \in {HTTPException(status_code, detail) :
                    status_code \in StatusCodes, detail \in Details}

\* The exception is fixed at the start; the one step is the handler's.
HandleHTTPException ==
    /\ handled = NotHandled
    /\ LET detail_obj == _coerce_detail_to_object(exc.detail)
       IN  handled' = http_exception_handler(exc.status_code,
                                             detail_obj.message,
                                             detail_obj.code)
    /\ UNCHANGED <<users, tokens, now, history, procVars, saved,
                   raw_ingredients, generated, environ, issued, exc,
                   request, forwarded, recipeLog>>

NextHttp == HandleHTTPException

SpecHttp == InitHttp /\ [][NextHttp]_vars

\* ------------------------------------------ main.py, auth_cookie_middleware
\* The requests of SpecCookie: with and without an Authorization header (one
\* of them with an empty value), with each of the two cookies absent, empty
\* or set, to paths inside and outside /profile.
AuthorizationHeaders ==
    {<<>>, <<Header("authorization", "Bearer h1")>>,
     <<Header("authorization", "")>>}
AcceptHeaders ==
    {<<>>, <<Header("accept", "text/html,application/xhtml+xml")>>,
     <<Header("accept", "application/json")>>}
CookieNames == {"access_token", "recipe_access_token"}
CookieValues == {"", "c1", "c2"}
Cookies == UNION {[D -> CookieValues] : D \in SUBSET CookieNames}
Methods == {"GET", "POST"}
Paths == {"/profile", "/profile/edit", "/profiles", "/recipes"}

Requests ==
    {Request(method, path, accept \o authorization, cookies) :
        method \in Methods, path \in Paths, accept \in AcceptHeaders,
        authorization \in AuthorizationHeaders, cookies \in Cookies}

InitCookie ==
    /\ InitStore
    /\ raw_ingredients = <<>>
    /\ exc = HTTPException(0, Detail("none", "", "", FALSE, ""))
    /\ request \in Requests

\* The request is fixed at the start; the one step is the middleware's.
AuthCookieMiddleware ==
    /\ forwarded = NotForwarded
    /\ forwarded' = auth_cookie_middleware(request)
    /\ UNCHANGED <<users, tokens, now, history, procVars, saved,
                   raw_ingredients, generated, environ, issued, exc,
                   handled, request, recipeLog>>

NextCookie == AuthCookieMiddleware

SpecCookie == InitCookie /\ [][NextCookie]_vars

\* ================================================================ claims
InvalidRefreshToken(out, toks) ==
    /\ out.resp.status = 401
    /\ out.resp.code = "invalid_refresh_token"
    /\ out.resp.access = NoAccess
    /\ out.resp.refresh = NoToken
    /\ out.tokens = toks

\* C1 (Spec): once a refresh of token t has succeeded, every refresh of t in
\* any later state is answered 401 invalid_refresh_token and changes nothing,
\* whatever requests ran in between; so a token is rotated at most once.
C1_RefreshAtMostOnce ==
    \A t \in rotated :
        InvalidRefreshToken(refresh_access_token(users, tokens, now, t),
                            tokens)

\* A token has been rotated, its successor has been used by further
\* requests, and a new refresh of the old token is rejected.
C1_Witness ==
    \E t \in rotated :
        /\ Len(tokens) = MaxTokens
        /\ \E s \in loggedOut : s # t
        /\ refresh_access_token(users, tokens, now, t).resp.code
               = "invalid_refresh_token"

\* C2 (SpecConc), as claimed: of two refresh requests presenting the same
\* token, never both are answered 200.
C2_ExactlyOneSucceeds ==
    ~ /\ presp[1].op = "refresh" /\ presp[1].status = 200
      /\ presp[2].op = "refresh" /\ presp[2].status = 200
      /\ presp[1].token = presp[2].token

\* C3 (Spec): after a logout of a stored token t, every refresh of t in any
\* later state is answered 401 invalid_refresh_token and issues no token.
C3_RefreshAfterLogoutFails ==
    \A t \in loggedOut :
        InvalidRefreshToken(refresh_access_token(users, tokens, now, t),
                            tokens)

\* A token that only a logout has revoked, whose refresh is rejected.
C3_Witness ==
    \E t \in loggedOut \ rotated :
        /\ tokens[t].revoked
        /\ refresh_access_token(users, tokens, now, t).resp.status = 401

\* C4 (Spec): logout answers 204 for every token string; for an unknown or
\* already revoked one it leaves the token table as it is; and a second
\* logout of the same string changes nothing the first has not changed.
C4_LogoutIdempotent ==
    \A t \in TokenInputs :
        LET once == logout(tokens, t)
            twice == logout(once.tokens, t)
            rows == TokenRows(tokens, t)
        IN  /\ once.resp.status = 204
            /\ twice.resp.status = 204
            /\ twice.tokens = once.tokens
            /\ (rows = {} \/ \A i \in rows : tokens[i].revoked)
                   => once.tokens = tokens

\* A logout has revoked a stored token, and logging it out again, like
\* logging out a string the server never issued, changes nothing.
C4_Witness ==
    \E t \in loggedOut :
        /\ tokens[t].revoked
        /\ logout(tokens, t).tokens = tokens
        /\ logout(tokens, MaxConcTokens + 1).tokens = tokens

\* C5 (Spec): a row with revoked = true keeps its token string and its
\* revoked flag in every step, and does not validate afterwards.
C5_RevokedIsTerminal ==
    [][\A i \in DOMAIN tokens :
           tokens[i].revoked =>
               /\ i \in DOMAIN tokens'
               /\ tokens'[i].token = tokens[i].token
               /\ tokens'[i].revoked
               /\ _validate_refresh_token(tokens', tokens[i].token, now')
                      = 0]_vars

\* A revoked row that later requests (a login or refresh after it, and a
\* logout of it) have left revoked.
C5_Witness ==
    \E i \in DOMAIN tokens :
        /\ tokens[i].revoked
        /\ i < Len(tokens)
        /\ tokens[i].token \in loggedOut

\* C6 (Spec), as claimed: _validate_refresh_token returns the record exactly
\* when a row with that string exists, is not revoked, and now < expires_at.
C6_ValidIffUnrevokedAndBeforeExpiry ==
    \A t \in TokenInputs \ {NoToken} :
        (_validate_refresh_token(tokens, t, now) # 0)
            <=> \E i \in DOMAIN tokens :
                    /\ tokens[i].token = t
                    /\ ~tokens[i].revoked
                    /\ now < tokens[i].expires_at

\* C7 (SpecConc), as claimed, for the states in which no refresh request is
\* in flight: every token a refresh request has revoked has been answered
\* with its successor stored.
C7_RotationAtomic ==
    InFlight = {} => revokedByRefresh \subseteq rotated

\* C8 (Spec): a refresh answered 200 returns a token string that differs
\* from the one presented and was not stored before; its row is unrevoked,
\* expires at now + REFRESH_TOKEN_EXPIRE_DAYS and belongs to the owner of
\* the presented token; the access token's subject is that owner's username.
C8_RefreshSuccessShape ==
    \A t \in TokenInputs :
        LET out == refresh_access_token(users, tokens, now, t)
            new == out.resp.refresh
        IN  out.resp.status = 200 =>
                /\ new # t
                /\ TokenRows(tokens, new) = {}
                /\ Cardinality(TokenRows(out.tokens, new)) = 1
                /\ \A i \in TokenRows(out.tokens, new) :
                     \A j \in TokenRows(tokens, t) :
                        /\ ~out.tokens[i].revoked
                        /\ out.tokens[i].expires_at
                               = now + REFRESH_TOKEN_EXPIRE_DAYS
                        /\ out.tokens[i].user_id = tokens[j].user_id
                        /\ out.resp.access.sub
                               = users[tokens[j].user_id].username
                        /\ out.tokens[j].revoked

\* Two accounts exist, the second one's token has been rotated, and its
\* successor is stored for the same owner.
C8_Witness ==
    /\ Len(users) = 2
    /\ \E t \in rotated :
        /\ tokens[t].user_id = 2
        /\ \E i \in DOMAIN tokens :
            /\ i > t
            /\ tokens[i].user_id = 2
            /\ ~tokens[i].revoked

\* C9 (SpecLogin), as claimed: a login whose identifier matches no row, and
\* a login whose identifier matches a row whose password is another one,
\* are both answered 401 invalid_credentials with the same message, and
\* create no refresh token.
C9_SameInvalidCredentials ==
    \A ident \in Idents, password \in Passwords :
        \A i \in (IF get_user(users, ident) = {} THEN {0}
                  ELSE get_user(users, ident)) :
            LET out == login_for_access_token(users, tokens, now, ident,
                                              password, i)
            IN  (i = 0 \/ users[i].password_hash
                              # get_password_hash(password))
                    => /\ out.resp.status = 401
                       /\ out.resp.code = "invalid_credentials"
                       /\ out.resp.message = "Incorrect username or password"
                       /\ out.tokens = tokens

\* C10 (SpecLogin), as claimed: for a disabled user, a login by username or
\* email is answered 403 account_disabled with the user's password and 401
\* invalid_credentials with another one, and creates no refresh token.
C10_DisabledAfterPassword ==
    \A u \in DOMAIN users :
        ~users[u].is_active =>
            \A ident \in {users[u].username, users[u].email} :
                \A password \in Passwords :
                    \A i \in get_user(users, ident) :
                        LET out == login_for_access_token(
                                       users, tokens, now, ident,
                                       password, i)
                        IN  /\ out.tokens = tokens
                            /\ out.resp.status
                                   = IF users[u].password_hash
                                          = get_password_hash(password)
                                     THEN 403 ELSE 401
                            /\ out.resp.code
                                   = IF users[u].password_hash
                                          = get_password_hash(password)
                                     THEN "account_disabled"
                                     ELSE "invalid_credentials"

\* C11 (SpecLogin): a login answered 200 was made with the username or the
\* email of the user it authenticated; the access token's subject is that
\* user's username; the refresh token returned is a string no stored row
\* holds and none handed out before, and its one new row belongs to that
\* user and is unrevoked.
C11_LoginSuccessShape ==
    \A ident \in Idents, password \in Passwords :
        \A i \in (IF get_user(users, ident) = {} THEN {0}
                  ELSE get_user(users, ident)) :
            LET out == login_for_access_token(users, tokens, now, ident,
                                              password, i)
                new == out.resp.refresh
            IN  out.resp.status = 200 =>
                    /\ i \in DOMAIN users
                    /\ ident \in {users[i].username, users[i].email}
                    /\ out.resp.access.sub = users[i].username
                    /\ new # NoToken
                    /\ TokenRows(tokens, new) = {}
                    /\ \A h \in issued : h.refresh # new
                    /\ Cardinality(TokenRows(out.tokens, new)) = 1
                    /\ \A j \in TokenRows(out.tokens, new) :
                           /\ out.tokens[j].user_id = i
                           /\ ~out.tokens[j].revoked

\* One user has logged in once by username and once by an email that is
\* not the username, and holds two different refresh tokens.
C11_Witness ==
    \E u \in DOMAIN users :
        \E h1, h2 \in issued :
            /\ users[u].email # users[u].username
            /\ h1.op = "login" /\ h1.ident = users[u].username
            /\ h2.op = "login" /\ h2.ident = users[u].email
            /\ h1.access.sub = users[u].username
            /\ h2.access.sub = users[u].username
            /\ h1.refresh # h2.refresh
            /\ \A h \in {h1, h2} : \A j \in TokenRows(tokens, h.refresh) :
                   tokens[j].user_id = u

\* C12 (SpecLogin): a signup whose username is stored is answered 400
\* username_exists, whether or not its email is stored too; a signup whose
\* email alone is stored is answered 400 email_exists; a signup answered 400
\* leaves the user table as it was.
C12_SignupDuplicates ==
    \A user_in \in UserCreate(Idents, Emails, Passwords) :
        LET out == signup(users, user_in.username, user_in.email,
                          user_in.password)
            nameTaken == \E u \in DOMAIN users :
                            users[u].username = user_in.username
            emailTaken == \E u \in DOMAIN users :
                             users[u].email = user_in.email
        IN  /\ nameTaken => /\ out.resp.status = 400
                            /\ out.resp.code = "username_exists"
            /\ (~nameTaken /\ emailTaken) => /\ out.resp.status = 400
                                             /\ out.resp.code = "email_exists"
            /\ (~nameTaken /\ ~emailTaken) => out.resp.status # 400
            /\ out.resp.status = 400 => out.users = users

\* Two users are stored; one form takes its username from the first and its
\* email from the second and is answered username_exists, another takes
\* only an email and is answered email_exists.
C12_Witness ==
    /\ Len(users) = 2
    /\ \E f, g \in UserCreate(Idents, Emails, Passwords) :
        /\ f.username = users[1].username
        /\ f.email = users[2].email
        /\ f.email # users[1].email
        /\ signup(users, f.username, f.email, f.password).resp.code
               = "username_exists"
        /\ \A u \in DOMAIN users : users[u].username # g.username
        /\ g.email = users[1].email
        /\ signup(users, g.username, g.email, g.password).resp.code
               = "email_exists"

\* C13 (SpecSignup): no two rows of the user table share a username, and no
\* two share an email, in every state that interleaved signups and
\* saved-recipes requests reach.
C13_UniqueUsers ==
    \A u, v \in DOMAIN users :
        u # v => /\ users[u].username # users[v].username
                 /\ users[u].email # users[v].email

\* A signup passed both of its lookups, a saved-recipes request created
\* the user of the same username in between, and the signup's insert was
\* refused; the table holds that user and one created by signup.
C13_Witness ==
    /\ Len(users) = 2
    /\ \E u \in DOMAIN users : users[u].password_hash.scheme = "argon2"
    /\ \E p \in Procs :
        /\ presp[p].op = "signup"
        /\ presp[p].status = 500
        /\ \E u \in DOMAIN users :
            /\ users[u].username = presp[p].ident
            /\ users[u].password_hash.scheme = ""

\* C14 (SpecLogin), as claimed: for every active user whose signup was
\* answered 201, the stored hash verifies against a password exactly when
\* it is the hash of that password, and a login with the user's username
\* and a password is answered 200 exactly when the password is the one
\* given at signup.
C14_PasswordRoundTrip ==
    \A u \in DOMAIN users :
        (EmailStr(users[u].email) /\ users[u].is_active) =>
            \A password \in Passwords :
                LET mine == users[u].password_hash
                                = get_password_hash(password)
                IN  /\ verify_password(password, users[u].password_hash)
                           <=> mine
                    /\ \A i \in get_user(users, users[u].username) :
                           login_for_access_token(
                               users, tokens, now, users[u].username,
                               password, i).resp.status = 200 <=> mine

\* C15 (Spec): get_current_user answers 401 invalid_credentials, and returns
\* no user, for every request whose Authorization header is absent, is not
\* a JWT, is signed with another key than SECRET_KEY, has exp <= now, has
\* no (or an empty) subject, or has a subject no stored user matches; and
\* whenever it returns a user the token is none of these, and the user is a
\* stored one the subject matches.
C15_CurrentUserOrInvalidCredentials ==
    \A a \in BearerInputs \cup {Bearer(h.access) : h \in issued} :
        \A i \in CurrentUserRows(users, a, now) :
            LET out == get_current_user(users, a, now, i)
                good == /\ a.scheme = "Bearer"
                        /\ a.form = "jwt"
                        /\ a.key = SECRET_KEY
                        /\ now < a.exp
                        /\ a.has_sub /\ a.sub # ""
                        /\ \E u \in DOMAIN users :
                               a.sub \in {users[u].username, users[u].email}
            IN  /\ ~good => /\ out.status = 401
                            /\ out.code = "invalid_credentials"
                            /\ out.user = NoUser
                /\ out.status = 200 =>
                       /\ good
                       /\ i \in DOMAIN users
                       /\ a.sub \in {users[i].username, users[i].email}
                       /\ out.user.username = users[i].username
                /\ out.status \in {200, 401, 500}

\* Two access tokens have been handed out: one has expired and is answered
\* 401, the other resolves to its user; the same token signed with another
\* key, and a request without the header, are answered 401.
C15_Witness ==
    \E h1, h2 \in issued :
        /\ h1.access.exp <= now
        /\ \A i \in CurrentUserRows(users, Bearer(h1.access), now) :
               get_current_user(users, Bearer(h1.access), now, i).status
                   = 401
        /\ now < h2.access.exp
        /\ \A i \in CurrentUserRows(users, Bearer(h2.access), now) :
               get_current_user(users, Bearer(h2.access), now, i)
                   .user.username = h2.access.sub
        /\ get_current_user(users,
                            [Bearer(h2.access) EXCEPT !.key = "forged"],
                            now, 0).code = "invalid_credentials"
        /\ get_current_user(users, NoAuthorization, now, 0).status = 401

\* C16 (Spec): for every access token handed out by login or refresh, in
\* every later state and whatever has become of the refresh token handed
\* out with it: while now < exp, get_current_user resolves it to the user
\* it was issued for and the protected endpoints accept it (they answer 400
\* account_inactive if that user has been disabled); from now = exp on, it
\* is answered 401 invalid_credentials.
C16_AccessTokenValidUntilExpiry ==
    \A h \in issued :
        \A i \in CurrentUserRows(users, Bearer(h.access), now) :
            LET current == get_current_user(users, Bearer(h.access), now, i)
                active == get_current_active_user(users, Bearer(h.access),
                                                  now, i)
            IN  IF now < h.access.exp
                THEN /\ current.status = 200
                     /\ current.user.username = h.access.sub
                     /\ active.status
                            = IF current.user.disabled THEN 400 ELSE 200
                ELSE /\ current.status = 401
                     /\ current.code = "invalid_credentials"
                     /\ active.status = 401

\* A login's refresh token has been rotated and the refresh token of the
\* rotation has been logged out; the access tokens of both requests are
\* still accepted.
C16_Witness ==
    \E h1, h2 \in issued :
        /\ h1.op = "login" /\ h1.refresh \in rotated
        /\ h2.op = "refresh" /\ h2.refresh \in loggedOut
        /\ \A h \in {h1, h2} :
            /\ now < h.access.exp
            /\ \A j \in TokenRows(tokens, h.refresh) : tokens[j].revoked
            /\ \A i \in CurrentUserRows(users, Bearer(h.access), now) :
                   get_current_active_user(users, Bearer(h.access), now, i)
                       .status = 200

\* C17 (Spec), as claimed: a refresh with a token string that is stored and
\* revoked, that is stored and expired (now >= expires_at), or that is not
\* stored, is answered with one and the same response, 401
\* invalid_refresh_token "Invalid or expired refresh token" without tokens,
\* and leaves the token table as it was.
C17_InvalidTokensIndistinguishable ==
    \A t \in TokenInputs \ {NoToken} :
        LET out == refresh_access_token(users, tokens, now, t)
            rows == {i \in DOMAIN tokens : tokens[i].token = t}
        IN  (\/ rows = {}
             \/ \E i \in rows : tokens[i].revoked
             \/ \E i \in rows : tokens[i].expires_at <= now)
                => /\ InvalidRefreshToken(out, tokens)
                   /\ out.resp.message = "Invalid or expired refresh token"

\* C18 (Spec), as claimed: when the environment has no SECRET_KEY, no access
\* token has been handed out, and no login and no refresh is answered with
\* one.
C18_FailsClosedWithoutSecret ==
    "SECRET_KEY" \notin DOMAIN environ =>
        /\ issued = {}
        /\ \A ident \in Usernames, password \in Passwords :
               \A i \in (IF get_user(users, ident) = {} THEN {0}
                         ELSE get_user(users, ident)) :
                   login_for_access_token(users, tokens, now, ident,
                                          password, i).resp.access = NoAccess
        /\ \A t \in TokenInputs :
               refresh_access_token(users, tokens, now, t).resp.access
                   = NoAccess

\* An item with no character other than whitespace (the empty one too).
Blank(item) == \A k \in DOMAIN item : item[k] = " "

\* item is name, up to case where anycase holds, between a whitespace
\* characters and whitespace up to its end, and name neither starts nor
\* ends with whitespace.
Padded(name, item, a, anycase) ==
    /\ name # <<>>
    /\ name[1] # " "
    /\ name[Len(name)] # " "
    /\ a + Len(name) <= Len(item)
    /\ \A k \in DOMAIN item :
          IF a < k /\ k <= a + Len(name)
          THEN \/ item[k] = name[k - a]
               \/ anycase /\ {item[k], name[k - a]} = {"a", "A"}
          ELSE item[k] = " "

\* name is what is left of item without its leading and trailing whitespace.
TrimOf(name, item) ==
    \E a \in 0 .. Len(item) : Padded(name, item, a, FALSE)

\* The positions of the request whose trimmed item is name up to case.
Occurrences(name) ==
    {j \in DOMAIN raw_ingredients :
        \E a \in 0 .. Len(raw_ingredients[j]) :
            Padded(name, raw_ingredients[j], a, TRUE)}

\* C19 (SpecRecipe): in a recipe returned, every ingredient's name is the
\* trimmed form of the first item of the request that equals it up to case,
\* the names stand in the order of these first items (so no two are equal
\* up to case), every non-blank item of the request is among them up to
\* case, every amount is 'ízlés szerint', and normalising the names again
\* returns them unchanged.
C19_NormalisedIngredients ==
    generated.status = 200 =>
        LET names == [k \in DOMAIN generated.ingredients |->
                         generated.ingredients[k].name]
            first(k) == CHOOSE j \in Occurrences(names[k]) :
                            \A i \in Occurrences(names[k]) : j <= i
        IN  /\ names # <<>>
            /\ \A k \in DOMAIN names :
                   /\ Occurrences(names[k]) # {}
                   /\ TrimOf(names[k], raw_ingredients[first(k)])
                   /\ generated.ingredients[k].amount = "ízlés szerint"
            /\ \A k, l \in DOMAIN names : k < l => first(k) < first(l)
            /\ \A j \in DOMAIN raw_ingredients :
                   ~Blank(raw_ingredients[j]) =>
                       \E k \in DOMAIN names : j \in Occurrences(names[k])
            /\ _normalize_ingredients(names) = names

\* A request of a padded upper-case item followed by the same name in
\* lower case has been answered with the one ingredient, trimmed and in the
\* first item's casing.
C19_Witness ==
    /\ generated.status = 200
    /\ Len(raw_ingredients) = 2
    /\ Len(generated.ingredients) = 1
    /\ generated.ingredients[1].name = <<"A">>
    /\ raw_ingredients[1] # <<"A">>
    /\ raw_ingredients[2] = <<"a">>

\* C20 (SpecRecipe): generate_recipe_from_ingredients raises ValueError('At
\* least one ingredient is required.') exactly for the requests all of whose
\* items are blank, the empty list among them; POST /recipes/generate
\* answers these with 400 invalid_input and that message, and every other
\* request with a recipe.
C20_ValueErrorIffNoIngredient ==
    LET none == \A j \in DOMAIN raw_ingredients : Blank(raw_ingredients[j])
        recipe == generate_recipe_from_ingredients(raw_ingredients)
    IN  /\ recipe.raised <=> none
        /\ recipe.raised =>
               recipe.message = "At least one ingredient is required."
        /\ generated # NotGenerated =>
               IF none
               THEN /\ generated.status = 400
                    /\ generated.code = "invalid_input"
                    /\ generated.message
                           = "At least one ingredient is required."
                    /\ generated.ingredients = <<>>
               ELSE /\ generated.status = 200
                    /\ generated.ingredients # <<>>
                    /\ generated.title # <<>>

\* A request of an empty item and a whitespace item has been answered 400.
C20_Witness ==
    /\ generated.status = 400
    /\ Len(raw_ingredients) = 2
    /\ raw_ingredients[1] = <<>>
    /\ raw_ingredients[2] = <<" ">>

\* The code the raised detail carries: "" when it has none (no key code, or
\* a None or empty one).
ExplicitCode(detail) ==
    IF detail.kind \in {"dict", "json"} /\ detail.has_code THEN detail.code
    ELSE ""

\* C21 (SpecHttp): the response of http_exception_handler has the status of
\* the exception; a detail that carries a code keeps it, whatever the status
\* (a 401 invalid_refresh_token stays invalid_refresh_token); a detail that
\* carries none gets invalid_credentials when the status is 401 and no code
\* when it is any other status.
C21_InvalidCredentialsOnlyWhenNoCode ==
    handled # NotHandled =>
        /\ handled.status = exc.status_code
        /\ ExplicitCode(exc.detail) # "" =>
               handled.code = ExplicitCode(exc.detail)
        /\ ExplicitCode(exc.detail) = "" =>
               handled.code = IF exc.status_code = 401
                              THEN "invalid_credentials" ELSE ""

\* A 401 raised with the code invalid_refresh_token has been handled.
C21_Witness ==
    /\ handled # NotHandled
    /\ exc.status_code = 401
    /\ exc.detail.kind = "dict"
    /\ ExplicitCode(exc.detail) = "invalid_refresh_token"
    /\ handled.code = "invalid_refresh_token"

\* The headers named authorization, in order
AuthorizationValues(headers) ==
    LET named == SelectSeq(headers, LAMBDA h : h.name = "authorization")
    IN  [k \in DOMAIN named |-> named[k].value]

\* The cookie the claim names: access_token when sent and non-empty,
\* otherwise recipe_access_token when sent and non-empty, otherwise "".
NamedCookie(cookies) ==
    IF "access_token" \in DOMAIN cookies /\ cookies["access_token"] # ""
    THEN cookies["access_token"]
    ELSE IF "recipe_access_token" \in DOMAIN cookies
            /\ cookies["recipe_access_token"] # ""
    THEN cookies["recipe_access_token"]
    ELSE ""

\* A GET that accepts text/html for a path that starts with /profile
ProfileNavigation(req) ==
    /\ req.method = "GET"
    /\ \E k \in DOMAIN req.headers :
          /\ req.headers[k].name = "accept"
          /\ contains(req.headers[k].value, "text/html")
    /\ startswith(req.path, "/profile")

\* C22 (SpecCookie): a request with an Authorization header goes on with its
\* headers unchanged, cookies or not; a request without one that has a
\* non-empty access_token cookie (or, failing that, a non-empty
\* recipe_access_token cookie) goes on with exactly one Authorization
\* header, "Bearer <cookie>", added to its own headers, unless it is
\* redirected; a GET that accepts text/html for a path starting with
\* /profile is redirected to /login exactly when it has no Authorization
\* header after the injection, that is, neither a header nor such a cookie.
C22_CookieToAuthorization ==
    forwarded # NotForwarded =>
        LET had_auth == has_authorization(request.headers)
            cookie == NamedCookie(request.cookies)
        IN  /\ had_auth =>
                   /\ forwarded.action = "call_next"
                   /\ forwarded.headers = request.headers
            /\ (~had_auth /\ cookie # "") =>
                   /\ forwarded.action = "call_next"
                   /\ AuthorizationValues(forwarded.headers)
                          = <<"Bearer " \o cookie>>
                   /\ SelectSeq(forwarded.headers,
                                LAMBDA h : h.name # "authorization")
                          = request.headers
            /\ (~had_auth /\ cookie = "" /\ forwarded.action = "call_next")
                   => forwarded.headers = request.headers
            /\ ProfileNavigation(request) =>
                   (forwarded.action = "redirect"
                        <=> (~had_auth /\ cookie = ""))
            /\ forwarded.action = "redirect" =>
                   forwarded.location = "/login"

\* A request without an Authorization header whose access_token cookie is
\* empty and whose recipe_access_token cookie is not has gone on with the
\* second cookie as its bearer token.
C22_Witness ==
    /\ forwarded.action = "call_next"
    /\ ~has_authorization(request.headers)
    /\ "access_token" \in DOMAIN request.cookies
    /\ request.cookies["access_token"] = ""
    /\ ProfileNavigation(request)
    /\ AuthorizationValues(forwarded.headers) = <<"Bearer c2">>

\* The recipes of the log saved under a username and not deleted since
Kept(username) ==
    {e \in recipeLog : e.username = username /\ ~e.deleted}

C25_DisabledOwnerKeepsToken ==
    \A i \in DOMAIN tokens :
        LET token_str == tokens[i].token
            u == tokens[i].user_id
            out == refresh_access_token(users, tokens, now, token_str)
        IN  (/\ _validate_refresh_token(tokens, token_str, now) = i
             /\ ~users[u].is_active) =>
                /\ out.resp.status = 403
                /\ out.resp.code = "account_disabled"
                /\ out.resp.access = NoAccess
                /\ out.resp.refresh = NoToken
                /\ out.tokens = tokens
                /\ ~out.tokens[i].revoked
                /\ refresh_access_token(
                       [users EXCEPT ![u].is_active = TRUE], out.tokens,
                       now, token_str).resp.status = 200

\* A disabled user holds a refresh token that validates.
C25_Witness ==
    \E i \in DOMAIN tokens :
        /\ _validate_refresh_token(tokens, tokens[i].token, now) = i
        /\ ~users[tokens[i].user_id].is_active
        /\ refresh_access_token(users, tokens, now,
                                tokens[i].token).resp.status = 403

\* C26 (Spec): a login answered 401 or 403, a refresh answered 400
\* missing_refresh_token, 401 invalid_refresh_token or 403 account_disabled,
\* and a signup answered 400 username_exists or email_exists leave the
\* tables as they are: no row added, no row revoked.
C26_FailedRequestsStoreNothing ==
    /\ \A ident \in Idents, password \in Passwords :
          \A i \in (IF get_user(users, ident) = {} THEN {0}
                    ELSE get_user(users, ident)) :
              LET out == login_for_access_token(users, tokens, now, ident,
                                                password, i)
              IN  out.resp.status \in {401, 403} => out.tokens = tokens
    /\ \A token_str \in TokenInputs :
          LET out == refresh_access_token(users, tokens, now, token_str)
          IN  out.resp.code \in {"missing_refresh_token",
                                 "invalid_refresh_token",
                                 "account_disabled"}
                 => out.tokens = tokens
    /\ \A user_in \in UserCreate(Idents, Emails, Passwords) :
          LET out == signup(users, user_in.username, user_in.email,
                            user_in.password)
          IN  out.resp.code \in {"username_exists", "email_exists"}
                 => out.users = users

\* One state in which a request of each kind fails: a login of a disabled
\* user with the right password (403) and with a wrong one (401), a refresh
\* with a revoked token (401) and with none (400), a signup with a stored
\* username and one with a stored email.
C26_Witness ==
    \E u \in DOMAIN users, i \in DOMAIN tokens :
        /\ login_for_access_token(users, tokens, now, users[u].username,
                                  "pw1", u).resp.status = 403
        /\ login_for_access_token(users, tokens, now, users[u].username,
                                  "pw2", u).resp.status = 401
        /\ tokens[i].revoked
        /\ refresh_access_token(users, tokens, now,
                                tokens[i].token).resp.status = 401
        /\ refresh_access_token(users, tokens, now, NoToken).resp.status
              = 400
        /\ signup(users, users[u].username, "nobody", "pw1").resp.code
              = "username_exists"
        /\ signup(users, "nobody", users[u].email, "pw1").resp.code
              = "email_exists"

\* The ACTIVE rows of a user: not revoked, and now < expires_at
Active(toks, u, t) ==
    {i \in DOMAIN toks : /\ toks[i].user_id = u
                         /\ ~toks[i].revoked
                         /\ t < toks[i].expires_at}

\* The logins of a user that were answered 200
Logins(u) ==
    {h \in issued : h.op = "login" /\ h.access.sub = users[u].username}

\* The number of ACTIVE rows of a user never exceeds the number of the
\* user's logins answered 200.
ActiveWithinLogins ==
    \A u \in DOMAIN users :
        Cardinality(Active(tokens, u, now)) <= Cardinality(Logins(u))

\* C27 (Spec), as claimed: the ACTIVE rows of a user are never more than the
\* user's logins answered 200; a login answered 200 adds one ACTIVE row to
\* the user's and changes no other row; a refresh answered 200 leaves the
\* number of ACTIVE rows of every user as it is; a logout adds no ACTIVE row
\* and changes no row of a user other than the token's.
C27_ActiveTokensBoundedByLogins ==
    /\ ActiveWithinLogins
    /\ \A ident \in Usernames : \A u \in get_user(users, ident) :
          LET out == login_for_access_token(users, tokens, now, ident,
                                            "pw1", u)
          IN  out.resp.status = 200 =>
                /\ Active(out.tokens, u, now)
                      = Active(tokens, u, now) \cup {Len(out.tokens)}
                /\ Len(out.tokens) = Len(tokens) + 1
                /\ \A i \in DOMAIN tokens : out.tokens[i] = tokens[i]
    /\ \A token_str \in TokenInputs :
          LET out == refresh_access_token(users, tokens, now, token_str)
          IN  out.resp.status = 200 =>
                \A u \in DOMAIN users :
                    Cardinality(Active(out.tokens, u, now))
                        = Cardinality(Active(tokens, u, now))
    /\ \A token_str \in TokenInputs :
          LET out == logout(tokens, token_str)
          IN  /\ \A u \in DOMAIN users :
                    Active(out.tokens, u, now) \subseteq
                        Active(tokens, u, now)
              /\ \A i \in DOMAIN tokens :
                    tokens[i].token # token_str => out.tokens[i] = tokens[i]
              /\ Len(out.tokens) = Len(tokens)

\* C28 (SpecLogin), as claimed: for every access token handed out,
\* whichever row the lookup returns, a user that get_current_user returns
\* has the token's subject as its username.
C28_SubjectIsUsername ==
    \A h \in issued :
        \A i \in CurrentUserRows(users, Bearer(h.access), now) :
            LET out == get_current_user(users, Bearer(h.access), now, i)
            IN  out.status = 200 => out.user.username = h.access.sub

\* A row as the saved-recipes endpoints create it
Implicit(us, u) == us[u] = DemoUser(us[u].username)

OwnerOf(saved_id) ==
    (CHOOSE e \in recipeLog : e.id = saved_id).username

====
